---- MODULE Spec2Model ----
(***************************************************************************)
(* TempTracker Pro service worker (src/sw.js): the fetch handler with its  *)
(* two retrieval strategies, the un-awaited cache writes, the install and  *)
(* activate phases, the background-sync relay and the message listener, as *)
(* a state machine whose steps are the handlers' code between two suspend  *)
(* points (await / promise continuation).                                  *)
(***************************************************************************)
EXTENDS Integers, Sequences, FiniteSets, TLC

(***************************************************************************)
(* Bounds of the model.                                                    *)
(***************************************************************************)
\* fetch events handled concurrently
MaxReq == 2
\* fetch events delivered in one behaviour
MaxFetch == 2
\* sync events, message events and installs of a later version in one
\* behaviour
MaxEvent == 2

(***************************************************************************)
(* Configuration (sw.js lines 4-26).                                       *)
(***************************************************************************)
CACHE_NAME == "temptracker-pro-v1.0.0"
STATIC_CACHE_NAME == "temptracker-static-v1.0.0"
DYNAMIC_CACHE_NAME == "temptracker-dynamic-v1.0.0"

STATIC_ASSETS ==
  << "/", "/index.html", "/src/main.tsx", "/src/App.tsx", "/src/App.css",
     "/src/index.css", "/manifest.json" >>

NO_CACHE_URLS ==
  << "https://cristyspizza.sharepoint.com",
     "https://login.microsoftonline.com",
     "https://graph.microsoft.com",
     "/_api/",
     "/contextinfo" >>

staticExtensions ==
  << ".js", ".css", ".png", ".jpg", ".jpeg", ".svg", ".ico", ".woff", ".woff2" >>

\* origin of the worker's scope: relative URLs such as '/index.html' handed
\* to cache.match / cache.addAll resolve against it
Origin == "https://temptracker.example"

(***************************************************************************)
(* Strings: String.prototype.includes and String.prototype.endsWith.       *)
(***************************************************************************)
Includes(s, pattern) ==
  \E i \in 1..(Len(s) - Len(pattern) + 1) :
     SubSeq(s, i, i + Len(pattern) - 1) = pattern

EndsWith(s, suffix) ==
  /\ Len(suffix) <= Len(s)
  /\ SubSeq(s, Len(s) - Len(suffix) + 1, Len(s)) = suffix

(***************************************************************************)
(* Requests the page can issue: the parts of a Request the worker reads.   *)
(* new URL(request.url) splits the URL; href is the whole of it.           *)
(***************************************************************************)
Req(o, p, q, m, d) ==
  [origin |-> o, pathname |-> p, search |-> q, method |-> m, destination |-> d]

Requests ==
  << Req(Origin, "/index.html", "", "GET", "document"),
     Req(Origin, "/", "", "GET", "document"),
     Req(Origin, "/assets/app.js", "", "GET", "script"),
     Req(Origin, "/api/data", "", "GET", ""),
     Req(Origin, "/dashboard", "", "GET", "document"),
     Req(Origin, "/api/data", "", "POST", ""),
     Req("https://graph.microsoft.com", "/v1.0/me", "", "GET", ""),
     Req(Origin, "/sites/_api/web.js", "", "GET", "script"),
     Req(Origin, "/dashboard", "?next=/contextinfo", "GET", "document"),
     Req("https://login.microsoftonline.com", "/token", "", "POST", "") >>

ReqIds == DOMAIN Requests

href(request) == request.origin \o request.pathname \o request.search

\* request.url of each request of Requests
Url == [r \in ReqIds |-> href(Requests[r])]

(***************************************************************************)
(* Request classification (sw.js lines 149-171).                           *)
(***************************************************************************)
\* the skip list matched against the start of the URL only
shouldSkipCache_StartsWith(url) ==
  \E i \in DOMAIN NO_CACHE_URLS :
     /\ Len(NO_CACHE_URLS[i]) <= Len(url)
     /\ SubSeq(url, 1, Len(NO_CACHE_URLS[i])) = NO_CACHE_URLS[i]

shouldSkipCache(url) ==
  \E i \in DOMAIN NO_CACHE_URLS : Includes(url, NO_CACHE_URLS[i])

isStaticAsset(pathname) ==
  \/ \E i \in DOMAIN staticExtensions : EndsWith(pathname, staticExtensions[i])
  \/ pathname = "/"
  \/ pathname = "/index.html"
  \/ pathname = "/manifest.json"

(***************************************************************************)
(* Responses and caches.  A cache is a set of (key, response) entries; the *)
(* key of a GET request is its URL.  The storage layer fails where it      *)
(* stores: the namespace opened to store a response (sw.js 214), a put, an *)
(* addAll.  Opening a namespace to read it, matching, listing the          *)
(* namespaces and deleting one succeed.                                    *)
(***************************************************************************)
Undefined == [url |-> "", status |-> 0, body |-> ""]

\* the payloads a URL is served with over time: two versions tell a stored
\* snapshot from a fresh answer
Bodies == {"v1", "v2"}

\* what the network can answer for a URL: a success with one of the bodies
\* of that URL, or a non-success
NetworkResponses(url) ==
  {[url |-> url, status |-> 200, body |-> b] : b \in Bodies}
     \cup {[url |-> url, status |-> 404, body |-> "not found"]}

\* Response.ok
ok(response) == response.status >= 200 /\ response.status <= 299

\* Cache.match: the stored response of the entry with that key, or undefined
CacheMatch(cache, key) ==
  IF \E e \in cache : e.key = key
  THEN (CHOOSE e \in cache : e.key = key).resp
  ELSE Undefined

\* the entry added next to the one of the key
CachePut_Append(cache, key, response) ==
  cache \cup {[key |-> key, resp |-> response]}

\* Cache.put: replaces whatever entry matches the key
CachePut(cache, key, response) ==
  {e \in cache : e.key # key} \cup {[key |-> key, resp |-> response]}

\* CacheStorage.open: the namespace is created when it does not exist
CachesOpen(cs, name) ==
  IF name \in DOMAIN cs THEN cs ELSE cs @@ (name :> {})

ShellKey == Origin \o "/index.html"

VARIABLES
  caches,     \* CacheStorage: namespace identifier -> set of entries
  pending,    \* cache.put calls issued and not awaited, not yet settled
  task,       \* per fetch event in flight: position and locals of its handler
  nFetch,     \* fetch events delivered so far
  install,    \* the install handler's promise chain and the worker's state
  activate,   \* the activate handler's promise chain
  clients,    \* the pages of the application: open, controlled, messages got
  sync,       \* the sync handler: events so far and the one being handled
  msg         \* the message listener: events so far and the last one handled

lifecycle == << activate, clients, sync, msg >>

vars == << caches, pending, task, nFetch, install, activate, clients, sync, msg >>

Tasks == 1..MaxReq

NoResult == [kind |-> "none", resp |-> Undefined, err |-> "none"]

IdleTask ==
  [id |-> 0, req |-> 0, pc |-> "idle", claimed |-> FALSE,
   strategy |-> "none", cacheName |-> "none",
   opens |-> 0, reads |-> 0, writes |-> 0, netCalls |-> 0,
   netOutcome |-> "none", networkResponse |-> Undefined,
   cachedResponse |-> Undefined, lookedUp |-> FALSE,
   shell |-> Undefined, shellLookedUp |-> FALSE,
   error |-> "none", result |-> NoResult, prior |-> {}, touched |-> {}]

\* a cache operation of a handler noted in its task: the namespace, the
\* operation and the key
Touched(t, cacheName, op, key) ==
  t.touched \cup {[ns |-> cacheName, op |-> op, key |-> key]}

Resolve(t, response) ==
  [t EXCEPT !.pc = "done",
            !.result = IF response = Undefined
                       THEN [kind |-> "undefined", resp |-> Undefined, err |-> "none"]
                       ELSE [kind |-> "response", resp |-> response, err |-> "none"]]

Reject(t, e) ==
  [t EXCEPT !.pc = "done",
            !.result = [kind |-> "error", resp |-> Undefined, err |-> e]]

\* run counts the install events of the behaviour; prior is what the run
\* before this one left: whether it stored the assets, and the keys of the
\* static namespace when this run began
IdleInstall == [worker |-> "parsed", pc |-> "idle", waitUntil |-> "none",
                skipWaiting |-> FALSE, stored |-> FALSE, failed |-> FALSE,
                attempts |-> 0, run |-> 1,
                prior |-> [stored |-> FALSE, keys |-> {}]]

\* the activate handler before its event: the names caches.keys() gave, the
\* deletions under way, whether clients.claim() was called, and what
\* CacheStorage held when the names were taken
IdleActivate == [pc |-> "idle", waitUntil |-> "none", cacheNames |-> {},
                 deleting |-> {}, claimed |-> FALSE, before |-> << >>]

\* the pages of the application that can be open
Clients == {"page1", "page2"}

ClosedClient == [open |-> FALSE, controlled |-> FALSE, inbox |-> << >>]

IdleSync == [n |-> 0, pc |-> "idle", tag |-> "none", waitUntil |-> "none",
             clients |-> {}]

\* event.data of a message event: none, or an object with a type
NoData == [present |-> FALSE, type |-> ""]

Data(type) == [present |-> TRUE, type |-> type]

IdleMsg == [n |-> 0, data |-> NoData, skipWaiting |-> 0]

\* namespaces a version before this one left in CacheStorage: their
\* identifiers carry another version tag
StaleNames == {"temptracker-static-v0.9.0", "temptracker-dynamic-v0.9.0"}

\* what such a namespace, or one of this version opened earlier, holds:
\* the app shell and a script
Leftover(name) ==
  {[key |-> k, resp |-> [url |-> k, status |-> 200, body |-> "v1"]] :
     k \in {ShellKey, Origin \o "/assets/app.js"}}

\* the worker is registered in an origin where the version before it has
\* left its static namespace
Init ==
  /\ caches = [name \in {"temptracker-static-v0.9.0"} |-> Leftover(name)]
  /\ pending = {}
  /\ task = [s \in Tasks |-> IdleTask]
  /\ nFetch = 0
  /\ install = IdleInstall
  /\ activate = IdleActivate
  /\ clients = [c \in Clients |-> ClosedClient]
  /\ sync = IdleSync
  /\ msg = IdleMsg


(***************************************************************************)
(* handleGetRequest with cacheFirst and networkFirst (sw.js 153-242).      *)
(* Every function below returns the task as it stands at the next suspend  *)
(* point; the actions further down are the continuations.                  *)
(***************************************************************************)
Key(t) == Url[t.req]

\* cacheFirst up to "await caches.open(cacheName)"
cacheFirst(t, cacheName) ==
  [t EXCEPT !.strategy = "cacheFirst", !.cacheName = cacheName, !.pc = "cf_open"]

\* networkFirst up to "await fetch(request)"
networkFirst(t, cacheName) ==
  [t EXCEPT !.strategy = "networkFirst", !.cacheName = cacheName,
            !.netCalls = @ + 1, !.pc = "nf_fetch"]

\* one namespace for the two strategies
handleGetRequest_OneNamespace(t, request) ==
  IF isStaticAsset(request.pathname)
  THEN cacheFirst(t, STATIC_CACHE_NAME)
  ELSE networkFirst(t, STATIC_CACHE_NAME)

handleGetRequest(t, request) ==
  IF isStaticAsset(request.pathname)
  THEN cacheFirst(t, STATIC_CACHE_NAME)
  ELSE networkFirst(t, DYNAMIC_CACHE_NAME)

\* the fetch listener, sw.js 77-89; respondWith is called or the listener
\* returns with the event untouched
FetchListener(t, request) ==
  IF shouldSkipCache(href(request))
  THEN [t EXCEPT !.pc = "passthrough"]
  ELSE IF request.method = "GET"
       THEN handleGetRequest([t EXCEPT !.claimed = TRUE], request)
       ELSE [t EXCEPT !.pc = "passthrough"]

\* a settled respondWith promise (or an unclaimed event) is taken by the
\* platform in the same turn of the event loop, before any other task runs
Quiet == \A s \in Tasks : task[s].pc \notin {"done", "passthrough"}

\* the lowest free slot takes the next fetch event
FreeSlot(s) ==
  /\ task[s].pc = "idle"
  /\ \A u \in Tasks : u < s => task[u].pc # "idle"

\* history: the responses already returned to earlier callers for the key of
\* this request, whose un-awaited writes have not settled when it arrives
PriorWrites(t) ==
  IF t.claimed
  THEN {w.resp : w \in {x \in pending : x.ns = t.cacheName /\ x.key = Url[t.req]}}
  ELSE {}

\* the listener's synchronous part depends on the request alone: where it
\* leaves the task of each request of Requests
Dispatched ==
  [r \in ReqIds |-> FetchListener([IdleTask EXCEPT !.req = r], Requests[r])]

FetchEvent(s, r) ==
  /\ Quiet
  /\ install.worker = "activated"
  /\ nFetch < MaxFetch
  /\ FreeSlot(s)
  /\ task' = [task EXCEPT ![s] =
                [Dispatched[r] EXCEPT !.id = nFetch + 1,
                                      !.prior = PriorWrites(Dispatched[r])]]
  /\ nFetch' = nFetch + 1
  /\ UNCHANGED << caches, pending, install, lifecycle >>

\* the catch block without its offline fallback
cacheFirstCatch_NoFallback(t, error) ==
  Reject([t EXCEPT !.error = error], error)

\* the catch block of cacheFirst, sw.js 193-203, up to its first await
cacheFirstCatch(t, error) ==
  IF Requests[t.req].destination = "document"
  THEN [t EXCEPT !.error = error, !.pc = "cf_fb_open"]
  ELSE Reject([t EXCEPT !.error = error], error)

\* the hit revalidated against the network instead of returned
cacheFirstLookup_Revalidate(t, cachedResponse) ==
  [t EXCEPT !.opens = @ + 1, !.reads = @ + 1, !.lookedUp = TRUE,
            !.cachedResponse = cachedResponse,
            !.touched = Touched(t, t.cacheName, "match", Key(t)),
            !.netCalls = @ + 1, !.pc = "cf_fetch"]

\* sw.js 177-185: the lookup, the hit returned, or the fetch started
cacheFirstLookup(t, cachedResponse) ==
  LET u == [t EXCEPT !.opens = @ + 1, !.reads = @ + 1, !.lookedUp = TRUE,
                     !.cachedResponse = cachedResponse,
                     !.touched = Touched(t, t.cacheName, "match", Key(t))]
  IN  IF cachedResponse # Undefined
      THEN Resolve(u, cachedResponse)
      ELSE [u EXCEPT !.netCalls = @ + 1, !.pc = "cf_fetch"]

\* sw.js 176-177: caches.open(cacheName) settles and cache.match after it
CfLookup(s) ==
  /\ Quiet
  /\ task[s].pc = "cf_open"
  /\ caches' = CachesOpen(caches, task[s].cacheName)
  /\ task' = [task EXCEPT ![s] =
                cacheFirstLookup(@, CacheMatch(caches'[task[s].cacheName],
                                               Key(task[s])))]
  /\ UNCHANGED << pending, nFetch, install, lifecycle >>

\* a cache.put issued and left to settle on its own
Write(t, response) ==
  [by |-> t.id, ns |-> t.cacheName, key |-> Key(t), resp |-> response]

\* sw.js 185-192: the network answered
cacheFirstResponse(t, networkResponse) ==
  Resolve([t EXCEPT !.netOutcome = IF ok(networkResponse) THEN "ok" ELSE "notok",
                    !.networkResponse = networkResponse,
                    !.writes = IF ok(networkResponse) THEN @ + 1 ELSE @,
                    !.touched = IF ok(networkResponse)
                                THEN Touched(t, t.cacheName, "put", Key(t))
                                ELSE @],
          networkResponse)

\* every answer of the network put into the namespace
CfFetch_PutAlways(s) ==
  /\ Quiet
  /\ task[s].pc = "cf_fetch"
  /\ \/ \E networkResponse \in NetworkResponses(Key(task[s])) :
          /\ task' = [task EXCEPT ![s] = cacheFirstResponse(@, networkResponse)]
          /\ pending' = pending \cup {Write(task[s], networkResponse)}
     \/ /\ task' = [task EXCEPT ![s] =
                      cacheFirstCatch([@ EXCEPT !.netOutcome = "throw"], "network")]
        /\ UNCHANGED pending
  /\ UNCHANGED << caches, nFetch, install, lifecycle >>

CfFetch(s) ==
  /\ Quiet
  /\ task[s].pc = "cf_fetch"
  /\ \/ \E networkResponse \in NetworkResponses(Key(task[s])) :
          /\ task' = [task EXCEPT ![s] = cacheFirstResponse(@, networkResponse)]
          /\ pending' = IF ok(networkResponse)
                        THEN pending \cup {Write(task[s], networkResponse)}
                        ELSE pending
     \/ /\ task' = [task EXCEPT ![s] =
                      cacheFirstCatch([@ EXCEPT !.netOutcome = "throw"], "network")]
        /\ UNCHANGED pending
  /\ UNCHANGED << caches, nFetch, install, lifecycle >>

\* sw.js 199: return cache.match('/index.html')
cacheFirstFallback(t, shell) ==
  Resolve([t EXCEPT !.opens = @ + 1, !.reads = @ + 1, !.shellLookedUp = TRUE,
                    !.shell = shell,
                    !.touched = Touched(t, STATIC_CACHE_NAME, "match", ShellKey)],
          shell)

\* sw.js 198-199: caches.open(STATIC_CACHE_NAME) in the catch block settles
\* and the match after it
CfFallback(s) ==
  /\ Quiet
  /\ task[s].pc = "cf_fb_open"
  /\ caches' = CachesOpen(caches, STATIC_CACHE_NAME)
  /\ task' = [task EXCEPT ![s] =
                cacheFirstFallback(@, CacheMatch(caches'[STATIC_CACHE_NAME],
                                                 ShellKey))]
  /\ UNCHANGED << pending, nFetch, install, lifecycle >>

\* a non-success answer handled like a thrown fetch
networkFirstResponse_FallBack(t, networkResponse) ==
  IF ok(networkResponse)
  THEN [t EXCEPT !.netOutcome = "ok", !.networkResponse = networkResponse,
                 !.pc = "nf_open"]
  ELSE [t EXCEPT !.netOutcome = "notok", !.networkResponse = networkResponse,
                 !.error = "network", !.pc = "nf_c_open"]

\* sw.js 210-219: the network answered or threw
networkFirstResponse(t, networkResponse) ==
  IF ok(networkResponse)
  THEN [t EXCEPT !.netOutcome = "ok", !.networkResponse = networkResponse,
                 !.pc = "nf_open"]
  ELSE Resolve([t EXCEPT !.netOutcome = "notok",
                         !.networkResponse = networkResponse], networkResponse)

\* the catch block of networkFirst, sw.js 219-222, up to its first await
networkFirstCatch(t, error) ==
  [t EXCEPT !.error = error, !.pc = "nf_c_open"]

\* an offline placeholder stored for the key when the network call throws
NfFetch_Placeholder(s) ==
  /\ Quiet
  /\ task[s].pc = "nf_fetch"
  /\ \/ /\ \E networkResponse \in NetworkResponses(Key(task[s])) :
             task' = [task EXCEPT ![s] = networkFirstResponse(@, networkResponse)]
        /\ UNCHANGED pending
     \/ /\ task' = [task EXCEPT ![s] =
                      networkFirstCatch([@ EXCEPT !.netOutcome = "throw"], "network")]
        /\ pending' = pending \cup
             {Write(task[s], [url |-> Key(task[s]), status |-> 503, body |-> "offline"])}
  /\ UNCHANGED << caches, nFetch, install, lifecycle >>

NfFetch(s) ==
  /\ Quiet
  /\ task[s].pc = "nf_fetch"
  /\ \/ \E networkResponse \in NetworkResponses(Key(task[s])) :
          task' = [task EXCEPT ![s] = networkFirstResponse(@, networkResponse)]
     \/ task' = [task EXCEPT ![s] =
                   networkFirstCatch([@ EXCEPT !.netOutcome = "throw"], "network")]
  /\ UNCHANGED << caches, pending, nFetch, install, lifecycle >>

\* the response returned without the put
NfOpen_NoPut(s) ==
  /\ Quiet
  /\ task[s].pc = "nf_open"
  /\ caches' = CachesOpen(caches, task[s].cacheName)
  /\ task' = [task EXCEPT ![s] = Resolve([@ EXCEPT !.opens = @ + 1], @.networkResponse)]
  /\ UNCHANGED << pending, nFetch, install, lifecycle >>

\* sw.js 214-218: caches.open(cacheName) settles; the put is issued and the
\* network response returned, or the rejection lands in the catch block
networkFirstStore(t) ==
  Resolve([t EXCEPT !.opens = @ + 1, !.writes = @ + 1,
                    !.touched = Touched(t, t.cacheName, "put", Key(t))],
          t.networkResponse)

NfOpen(s) ==
  /\ Quiet
  /\ task[s].pc = "nf_open"
  /\ \/ /\ caches' = CachesOpen(caches, task[s].cacheName)
        /\ task' = [task EXCEPT ![s] = networkFirstStore(@)]
        /\ pending' = pending \cup {Write(task[s], task[s].networkResponse)}
     \/ /\ task' = [task EXCEPT ![s] = networkFirstCatch(@, "storage")]
        /\ UNCHANGED << caches, pending >>
  /\ UNCHANGED << nFetch, install, lifecycle >>

\* a page request sent to the app shell before the stale entry is looked at
networkFirstLookup_ShellFirst(t, cachedResponse) ==
  LET u == [t EXCEPT !.opens = @ + 1, !.reads = @ + 1, !.lookedUp = TRUE,
                     !.cachedResponse = cachedResponse,
                     !.touched = Touched(t, t.cacheName, "match", Key(t))]
  IN  IF Requests[t.req].destination = "document"
      THEN [u EXCEPT !.pc = "nf_s_open"]
      ELSE IF cachedResponse # Undefined
           THEN Resolve(u, cachedResponse)
           ELSE Reject(u, t.error)

\* sw.js 223-232 and 239-240: the stale entry, the way to the app shell, or
\* the error rethrown
networkFirstLookup(t, cachedResponse) ==
  LET u == [t EXCEPT !.opens = @ + 1, !.reads = @ + 1, !.lookedUp = TRUE,
                     !.cachedResponse = cachedResponse,
                     !.touched = Touched(t, t.cacheName, "match", Key(t))]
  IN  IF cachedResponse # Undefined
      THEN Resolve(u, cachedResponse)
      ELSE IF Requests[t.req].destination = "document"
           THEN [u EXCEPT !.pc = "nf_s_open"]
           ELSE Reject(u, t.error)

\* sw.js 222-223: caches.open(cacheName) in the catch block settles and the
\* match after it
NfCatch(s) ==
  /\ Quiet
  /\ task[s].pc = "nf_c_open"
  /\ caches' = CachesOpen(caches, task[s].cacheName)
  /\ task' = [task EXCEPT ![s] =
                networkFirstLookup(@, CacheMatch(caches'[task[s].cacheName],
                                                 Key(task[s])))]
  /\ UNCHANGED << pending, nFetch, install, lifecycle >>

\* whatever the match gave returned, as cacheFirst does
networkFirstShell_Unchecked(t, appShell) ==
  Resolve([t EXCEPT !.opens = @ + 1, !.reads = @ + 1, !.shellLookedUp = TRUE,
                    !.shell = appShell,
                    !.touched = Touched(t, STATIC_CACHE_NAME, "match", ShellKey)],
          appShell)

\* sw.js 233-240: the app shell when there is one, the error otherwise
networkFirstShell(t, appShell) ==
  LET u == [t EXCEPT !.opens = @ + 1, !.reads = @ + 1, !.shellLookedUp = TRUE,
                     !.shell = appShell,
                     !.touched = Touched(t, STATIC_CACHE_NAME, "match", ShellKey)]
  IN  IF appShell # Undefined THEN Resolve(u, appShell) ELSE Reject(u, t.error)

\* sw.js 232-233: caches.open(STATIC_CACHE_NAME) settles and the match after
\* it
NfShell(s) ==
  /\ Quiet
  /\ task[s].pc = "nf_s_open"
  /\ caches' = CachesOpen(caches, STATIC_CACHE_NAME)
  /\ task' = [task EXCEPT ![s] =
                networkFirstShell(@, CacheMatch(caches'[STATIC_CACHE_NAME],
                                                ShellKey))]
  /\ UNCHANGED << pending, nFetch, install, lifecycle >>

(***************************************************************************)
(* The storage layer settles an un-awaited cache.put (sw.js 189, 215): the *)
(* entry replaces the one under the same key, or the put rejects (quota)   *)
(* and nobody hears of it.                                                 *)
(***************************************************************************)
ApplyPut(w) ==
  /\ Quiet
  /\ w \in pending
  /\ pending' = pending \ {w}
  /\ caches' = IF w.ns \in DOMAIN caches
               THEN [caches EXCEPT ![w.ns] = CachePut(@, w.key, w.resp)]
               ELSE caches
  /\ UNCHANGED << task, nFetch, install, lifecycle >>

FailPut(w) ==
  /\ Quiet
  /\ w \in pending
  /\ pending' = pending \ {w}
  /\ UNCHANGED << caches, task, nFetch, install, lifecycle >>

\* the platform is done with a settled fetch event
Retire(s) ==
  /\ task[s].pc \in {"done", "passthrough"}
  /\ task' = [task EXCEPT ![s] = IdleTask]
  /\ UNCHANGED << caches, pending, nFetch, install, lifecycle >>


(***************************************************************************)
(* The install listener (sw.js 29-47): the promise handed to waitUntil is  *)
(* open -> addAll -> skipWaiting with a catch at the end of the chain.     *)
(***************************************************************************)
AssetKey(i) == Origin \o STATIC_ASSETS[i]

\* the fetched assets added next to what the namespace holds
AddAll_Append(cache, body) ==
  LET keys == {AssetKey(i) : i \in DOMAIN STATIC_ASSETS}
  IN  cache \cup {[key |-> k, resp |-> [url |-> k, status |-> 200, body |-> body]] : k \in keys}

\* Cache.addAll: every asset fetched, all stored when all are ok, none
\* stored when one fetch fails
AddAll(cache, body) ==
  LET keys == {AssetKey(i) : i \in DOMAIN STATIC_ASSETS}
  IN  {e \in cache : e.key \notin keys}
        \cup {[key |-> k, resp |-> [url |-> k, status |-> 200, body |-> body]] : k \in keys}

\* the catch block going on to the promotion
installCatch_SkipWaiting(i) ==
  [i EXCEPT !.failed = TRUE, !.skipWaiting = TRUE, !.pc = "settled",
            !.waitUntil = "fulfilled"]

\* sw.js 43-45: the catch logs, and the chain is fulfilled
installCatch(i) ==
  [i EXCEPT !.failed = TRUE, !.pc = "settled", !.waitUntil = "fulfilled"]

InstallEvent ==
  /\ install.worker = "parsed"
  /\ install' = [install EXCEPT !.worker = "installing", !.pc = "open",
                                !.waitUntil = "pending"]
  /\ UNCHANGED << caches, pending, task, nFetch, lifecycle >>

\* sw.js 33-36: caches.open(STATIC_CACHE_NAME) settles, addAll is called
InstallOpen ==
  /\ install.pc = "open"
  /\ caches' = CachesOpen(caches, STATIC_CACHE_NAME)
  /\ install' = [install EXCEPT !.pc = "addAll", !.attempts = @ + 1]
  /\ UNCHANGED << pending, task, nFetch, lifecycle >>

\* sw.js 36-42: addAll settles; on success skipWaiting is called
InstallAddAll ==
  /\ install.pc = "addAll"
  /\ \E failing \in SUBSET (DOMAIN STATIC_ASSETS), body \in Bodies :
       IF failing = {}
       THEN /\ caches' = [caches EXCEPT ![STATIC_CACHE_NAME] = AddAll(@, body)]
            /\ install' = [install EXCEPT !.stored = TRUE, !.skipWaiting = TRUE,
                                          !.pc = "skipWaiting"]
       ELSE /\ install' = installCatch(install)
            /\ UNCHANGED caches
  /\ UNCHANGED << pending, task, nFetch, lifecycle >>

\* sw.js 41: the promise of skipWaiting is fulfilled, and the chain with it
InstallSkipWaited ==
  /\ install.pc = "skipWaiting"
  /\ install' = [install EXCEPT !.pc = "settled", !.waitUntil = "fulfilled"]
  /\ UNCHANGED << caches, pending, task, nFetch, lifecycle >>

\* the platform ends the install phase on the promise given to waitUntil:
\* fulfilled, the worker is installed; rejected, it is discarded
InstallEnd ==
  /\ install.worker = "installing"
  /\ install.pc = "settled"
  /\ install' = [install EXCEPT !.worker = IF install.waitUntil = "fulfilled"
                                           THEN "installed" ELSE "redundant"]
  /\ UNCHANGED << caches, pending, task, nFetch, lifecycle >>

\* the platform promotes an installed worker, which starts its activation:
\* at once when skipWaiting was requested, otherwise when the pages of the
\* previous version are gone
Promote ==
  /\ install.worker = "installed"
  /\ install' = [install EXCEPT !.worker = "activating"]
  /\ UNCHANGED << caches, pending, task, nFetch, lifecycle >>

(***************************************************************************)
(* The activate listener (sw.js 50-74): the promise handed to waitUntil is *)
(* keys -> Promise.all(deletions) -> clients.claim, with no catch.         *)
(***************************************************************************)
\* the test without the umbrella identifier
IsOld_NoUmbrella(cacheName) ==
  /\ cacheName # STATIC_CACHE_NAME
  /\ cacheName # DYNAMIC_CACHE_NAME

\* sw.js 59-61: the test of the map callback
IsOld(cacheName) ==
  /\ cacheName # STATIC_CACHE_NAME
  /\ cacheName # DYNAMIC_CACHE_NAME
  /\ cacheName # CACHE_NAME

ActivateEvent ==
  /\ install.worker = "activating"
  /\ activate.pc = "idle"
  /\ activate' = [activate EXCEPT !.pc = "keys", !.waitUntil = "pending"]
  /\ UNCHANGED << caches, pending, task, nFetch, install, clients, sync, msg >>

\* sw.js 54-66: caches.keys() settles; the map callback calls caches.delete
\* for every old name and Promise.all waits for the promises it returned
ActivateKeys ==
  /\ activate.pc = "keys"
  /\ activate' = [activate EXCEPT
                    !.pc = "deleting",
                    !.cacheNames = DOMAIN caches,
                    !.deleting = {cacheName \in DOMAIN caches : IsOld(cacheName)},
                    !.before = caches]
  /\ UNCHANGED << caches, pending, task, nFetch, install, clients, sync, msg >>

\* sw.js 63: one caches.delete settles, the namespace is gone
ActivateDelete(cacheName) ==
  /\ activate.pc = "deleting"
  /\ cacheName \in activate.deleting
  /\ caches' = [name \in DOMAIN caches \ {cacheName} |-> caches[name]]
  /\ activate' = [activate EXCEPT !.deleting = @ \ {cacheName}]
  /\ UNCHANGED << pending, task, nFetch, install, clients, sync, msg >>

\* the claim made as soon as the deletions are started: the map callback
\* does not hand the promise of caches.delete to Promise.all
ActivateClaim_Early ==
  /\ activate.pc = "deleting"
  /\ activate' = [activate EXCEPT !.pc = "claim", !.claimed = TRUE]
  /\ clients' = [c \in Clients |->
                   IF clients[c].open
                   THEN [clients[c] EXCEPT !.controlled = TRUE]
                   ELSE clients[c]]
  /\ UNCHANGED << caches, pending, task, nFetch, install, sync, msg >>

\* sw.js 68-72: Promise.all is fulfilled when every promise of the map is;
\* clients.claim() makes the worker the controller of the open pages
ActivateClaim ==
  /\ activate.pc = "deleting"
  /\ activate.deleting = {}
  /\ activate' = [activate EXCEPT !.pc = "claim", !.claimed = TRUE]
  /\ clients' = [c \in Clients |->
                   IF clients[c].open
                   THEN [clients[c] EXCEPT !.controlled = TRUE]
                   ELSE clients[c]]
  /\ UNCHANGED << caches, pending, task, nFetch, install, sync, msg >>

\* sw.js 71: the promise of clients.claim() is fulfilled, and the chain
\* with it
ActivateClaimed ==
  /\ activate.pc = "claim"
  /\ activate' = [activate EXCEPT !.pc = "settled", !.waitUntil = "fulfilled"]
  /\ UNCHANGED << caches, pending, task, nFetch, install, clients, sync, msg >>

\* the platform ends the activate phase on the promise given to waitUntil;
\* events of the pages are delivered from here on
ActivateEnd ==
  /\ install.worker = "activating"
  /\ activate.pc = "settled"
  /\ install' = [install EXCEPT !.worker = "activated"]
  /\ UNCHANGED << caches, pending, task, nFetch, activate, clients, sync, msg >>

(***************************************************************************)
(* A later version of the worker with the same configuration is installed  *)
(* (sw.js 29-47 run again): the pages stay with the version before it      *)
(* until this one claims them.                                             *)
(***************************************************************************)
Keys(cache) == {e.key : e \in cache}

\* events of the life cycle delivered so far, the first install aside
nEvent == sync.n + msg.n + (install.run - 1)

Reinstall ==
  /\ install.worker = "activated"
  /\ nEvent < MaxEvent
  /\ sync.pc = "idle"
  /\ install' = [IdleInstall EXCEPT
                   !.worker = "installing", !.pc = "open",
                   !.waitUntil = "pending", !.run = install.run + 1,
                   !.prior = [stored |-> install.stored,
                              keys |-> Keys(caches[STATIC_CACHE_NAME])]]
  /\ activate' = IdleActivate
  /\ clients' = [c \in Clients |-> [clients[c] EXCEPT !.controlled = FALSE]]
  /\ UNCHANGED << caches, pending, task, nFetch, sync, msg >>

(***************************************************************************)
(* The pages of the application.  A page opened while the worker is        *)
(* activated is controlled by it from its first request; the platform      *)
(* holds the load of a page back while the worker is activating.           *)
(***************************************************************************)
ClientOpen(c) ==
  /\ ~clients[c].open
  /\ install.worker # "activating"
  /\ clients' = [clients EXCEPT ![c] =
                   [open |-> TRUE, controlled |-> install.worker = "activated",
                    inbox |-> << >>]]
  /\ UNCHANGED << caches, pending, task, nFetch, install, activate, sync, msg >>

ClientClose(c) ==
  /\ clients[c].open
  /\ clients' = [clients EXCEPT ![c] = ClosedClient]
  /\ UNCHANGED << caches, pending, task, nFetch, install, activate, sync, msg >>

(***************************************************************************)
(* The sync listener and syncOfflineActions (sw.js 92-98, 245-267).        *)
(***************************************************************************)
SyncTags == {"background-sync-temptracker", "periodic-refresh"}

\* sw.js 254-257: the message posted to every client
SyncMessage == [type |-> "BACKGROUND_SYNC", action |-> "SYNC_OFFLINE_DATA"]

\* sw.js 92-98 and 245-250: the listener; for the tag of the application
\* syncOfflineActions runs up to "await self.clients.matchAll()"
SyncEvent(tag) ==
  /\ install.worker = "activated"
  /\ sync.pc = "idle"
  /\ nEvent < MaxEvent
  /\ sync' = IF tag = "background-sync-temptracker"
             THEN [n |-> sync.n + 1, pc |-> "matchAll", tag |-> tag,
                   waitUntil |-> "pending", clients |-> {}]
             ELSE [n |-> sync.n + 1, pc |-> "idle", tag |-> tag,
                   waitUntil |-> "none", clients |-> {}]
  /\ UNCHANGED << caches, pending, task, nFetch, install, activate, clients, msg >>

\* one client only taken from the answer
MatchAll_One ==
  LET all == {c \in Clients : clients[c].open /\ clients[c].controlled}
  IN  IF all = {} THEN {} ELSE {CHOOSE c \in all : TRUE}

\* clients.matchAll(): the window clients the worker controls
MatchAll == {c \in Clients : clients[c].open /\ clients[c].controlled}

\* sw.js 250-262: matchAll settles, every client is posted the message, and
\* the promise of syncOfflineActions is fulfilled
SyncMatchAll ==
  /\ sync.pc = "matchAll"
  /\ clients' = [c \in Clients |->
                   IF c \in MatchAll
                   THEN [clients[c] EXCEPT !.inbox = Append(@, SyncMessage)]
                   ELSE clients[c]]
  /\ sync' = [sync EXCEPT !.pc = "idle", !.waitUntil = "fulfilled",
                          !.clients = MatchAll]
  /\ UNCHANGED << caches, pending, task, nFetch, install, activate, msg >>

(***************************************************************************)
(* The message listener (sw.js 277-282).                                   *)
(***************************************************************************)
MessageData == {NoData, Data("SKIP_WAITING"), Data("CHECK_UPDATE")}

\* the listener without the test of the type
messageListener_AnyType(m, data) ==
  [m EXCEPT !.n = @ + 1, !.data = data,
            !.skipWaiting = IF data.present THEN @ + 1 ELSE @]

\* sw.js 278-281: skipWaiting() is called for a SKIP_WAITING message
messageListener(m, data) ==
  [m EXCEPT !.n = @ + 1, !.data = data,
            !.skipWaiting = IF data.present /\ data.type = "SKIP_WAITING"
                            THEN @ + 1 ELSE @]

MessageEvent(data) ==
  /\ install.worker \in {"installing", "installed", "activating", "activated"}
  /\ nEvent < MaxEvent
  /\ msg' = messageListener(msg, data)
  /\ UNCHANGED << caches, pending, task, nFetch, install, activate, clients, sync >>

Next ==
  \/ InstallEvent
  \/ InstallOpen
  \/ InstallAddAll
  \/ InstallSkipWaited
  \/ InstallEnd
  \/ Promote
  \/ ActivateEvent
  \/ ActivateKeys
  \/ \E cacheName \in activate.deleting : ActivateDelete(cacheName)
  \/ ActivateClaim
  \/ ActivateClaimed
  \/ ActivateEnd
  \/ \E s \in Tasks, r \in ReqIds : FetchEvent(s, r)
  \/ \E s \in Tasks : CfLookup(s)
  \/ \E s \in Tasks : CfFetch(s)
  \/ \E s \in Tasks : CfFallback(s)
  \/ \E s \in Tasks : NfFetch(s)
  \/ \E s \in Tasks : NfOpen(s)
  \/ \E s \in Tasks : NfCatch(s)
  \/ \E s \in Tasks : NfShell(s)
  \/ \E w \in pending : ApplyPut(w)
  \/ \E w \in pending : FailPut(w)
  \/ \E s \in Tasks : Retire(s)

Spec == Init /\ [][Next]_vars

(***************************************************************************)
(* The life cycle on its own: the worker and a later version of it are     *)
(* installed and activated in an origin whose CacheStorage holds any of    *)
(* the namespaces of this version and of the one before, pages open and    *)
(* close, and sync and message events arrive.                              *)
(***************************************************************************)
Names == {STATIC_CACHE_NAME, DYNAMIC_CACHE_NAME, CACHE_NAME} \cup StaleNames

LifecycleInit ==
  /\ \E existing \in SUBSET Names :
       caches = [name \in existing |-> Leftover(name)]
  /\ pending = {}
  /\ task = [s \in Tasks |-> IdleTask]
  /\ nFetch = 0
  /\ install = IdleInstall
  /\ activate = IdleActivate
  /\ clients = [c \in Clients |-> ClosedClient]
  /\ sync = IdleSync
  /\ msg = IdleMsg

LifecycleNext ==
  \/ InstallEvent
  \/ InstallOpen
  \/ InstallAddAll
  \/ InstallSkipWaited
  \/ InstallEnd
  \/ Promote
  \/ ActivateEvent
  \/ ActivateKeys
  \/ \E cacheName \in activate.deleting : ActivateDelete(cacheName)
  \/ ActivateClaim
  \/ ActivateClaimed
  \/ ActivateEnd
  \/ Reinstall
  \/ \E c \in Clients : ClientOpen(c)
  \/ \E c \in Clients : ClientClose(c)
  \/ \E tag \in SyncTags : SyncEvent(tag)
  \/ SyncMatchAll
  \/ \E data \in MessageData : MessageEvent(data)

Lifecycle == LifecycleInit /\ [][LifecycleNext]_vars


(***************************************************************************)
(* Vocabulary of the properties.                                           *)
(***************************************************************************)
Request(s) == Requests[task[s].req]

Busy(s) == task[s].req # 0

Done(s) == task[s].pc = "done"

\* the URL holds a no-cache pattern somewhere
HoldsPattern(request) ==
  \E i \in DOMAIN NO_CACHE_URLS, j \in 1..Len(href(request)) :
     /\ j + Len(NO_CACHE_URLS[i]) - 1 <= Len(href(request))
     /\ SubSeq(href(request), j, j + Len(NO_CACHE_URLS[i]) - 1) = NO_CACHE_URLS[i]

\* the requests of Requests that are skip-listed, and those with a static path
SkipListedReqs == {r \in ReqIds : HoldsPattern(Requests[r])}

StaticReqs == {r \in ReqIds : isStaticAsset(Requests[r].pathname)}

SkipListed(s) == task[s].req \in SkipListedReqs

Static(s) == task[s].req \in StaticReqs

\* what a namespace holds under a key, Undefined also when there is no
\* such namespace
Stored(name, key) ==
  IF name \in DOMAIN caches THEN CacheMatch(caches[name], key) ELSE Undefined

Returned(s, response) ==
  task[s].result = [kind |-> "response", resp |-> response, err |-> "none"]

Failed(s, e) ==
  task[s].result = [kind |-> "error", resp |-> Undefined, err |-> e]

PendingOf(s) == {w \in pending : w.by = task[s].id}

(***************************************************************************)
(* C1: a fetch event whose URL holds a no-cache pattern, or whose method   *)
(* is not GET, is left to the platform: respondWith is not called, and the *)
(* handler opens, reads and writes no cache and makes no network call.     *)
(***************************************************************************)
C1_SkipUntouched ==
  \A s \in Tasks :
    (Busy(s) /\ (SkipListed(s) \/ Request(s).method # "GET"))
      => /\ task[s].pc = "passthrough"
         /\ ~task[s].claimed
         /\ task[s].opens = 0 /\ task[s].reads = 0 /\ task[s].writes = 0
         /\ task[s].netCalls = 0
         /\ PendingOf(s) = {}

\* a GET with a static extension and "/_api/" in the middle of its path is
\* passed through while the static namespace holds entries
C1_Witness ==
  \E s \in Tasks :
    /\ task[s].pc = "passthrough"
    /\ Request(s).method = "GET"
    /\ Request(s).pathname = "/sites/_api/web.js"
    /\ STATIC_CACHE_NAME \in DOMAIN caches
    /\ caches[STATIC_CACHE_NAME] # {}

(***************************************************************************)
(* C2: a GET that is not skip-listed and whose path is a static asset goes *)
(* through cacheFirst on the static namespace; when the lookup finds an    *)
(* entry, that entry is what the caller gets and no network call is made.  *)
(***************************************************************************)
C2_CacheFirstHit ==
  \A s \in Tasks :
    (/\ Busy(s)
     /\ ~SkipListed(s)
     /\ Request(s).method = "GET"
     /\ Static(s))
      => /\ task[s].claimed
         /\ task[s].strategy = "cacheFirst"
         /\ task[s].cacheName = STATIC_CACHE_NAME
         /\ (task[s].lookedUp /\ task[s].cachedResponse # Undefined)
              => /\ Done(s)
                 /\ Returned(s, task[s].cachedResponse)
                 /\ Stored(STATIC_CACHE_NAME, Key(task[s])) = task[s].cachedResponse
                 /\ task[s].netCalls = 0
                 /\ task[s].netOutcome = "none"

C2_Witness ==
  \E s \in Tasks :
    /\ Done(s)
    /\ task[s].strategy = "cacheFirst"
    /\ task[s].cachedResponse # Undefined
    /\ Returned(s, task[s].cachedResponse)
    /\ task[s].netCalls = 0


\* a GET that is not skip-listed and whose path is no static asset
Dynamic(s) ==
  /\ Busy(s)
  /\ ~SkipListed(s)
  /\ Request(s).method = "GET"
  /\ ~Static(s)

Document(s) == Request(s).destination = "document"

C3_State ==
  \A s \in Tasks :
    Dynamic(s)
      => /\ task[s].claimed
         /\ task[s].strategy = "networkFirst"
         /\ task[s].cacheName = DYNAMIC_CACHE_NAME
         /\ (Done(s) /\ task[s].netOutcome = "ok" /\ task[s].error = "none")
              => /\ Returned(s, task[s].networkResponse)
                 /\ DYNAMIC_CACHE_NAME \in DOMAIN caches
                 /\ PendingOf(s) = {Write(task[s], task[s].networkResponse)}
         /\ (Done(s) /\ task[s].netOutcome = "throw"
               /\ task[s].lookedUp /\ task[s].cachedResponse # Undefined)
              => Returned(s, task[s].cachedResponse)

C3_Step ==
  /\ \A r \in ReqIds :
       LET key == Url[r]
       IN  (/\ caches' # caches
            /\ Stored(DYNAMIC_CACHE_NAME, key)' # Stored(DYNAMIC_CACHE_NAME, key))
             => \E w \in pending \ pending' :
                  /\ w.ns = DYNAMIC_CACHE_NAME
                  /\ w.key = key
                  /\ w.resp = Stored(DYNAMIC_CACHE_NAME, key)'
                  /\ ok(w.resp)
  /\ \A s \in Tasks :
       (Dynamic(s) /\ ~task[s].lookedUp /\ task'[s].lookedUp)
         => task'[s].cachedResponse = Stored(DYNAMIC_CACHE_NAME, Key(task[s]))'

C4_StaleServed ==
  \A s \in Tasks :
    (/\ Busy(s)
     /\ task[s].strategy = "networkFirst"
     /\ task[s].netOutcome = "throw"
     /\ task[s].lookedUp
     /\ task[s].cachedResponse # Undefined)
      => /\ Done(s)
         /\ task[s].result.kind = "response"
         /\ task[s].result.resp = task[s].cachedResponse
         /\ task[s].result.resp = Stored(task[s].cacheName, Key(task[s]))
         /\ task[s].result.resp.url = Key(task[s])
         /\ ~task[s].shellLookedUp

\* a page request served its stale entry while the app shell is there too
C4_Witness ==
  \E s \in Tasks :
    /\ Done(s)
    /\ task[s].strategy = "networkFirst"
    /\ task[s].netOutcome = "throw"
    /\ Document(s)
    /\ Returned(s, Stored(DYNAMIC_CACHE_NAME, Key(task[s])))
    /\ Stored(STATIC_CACHE_NAME, ShellKey) # Undefined

(***************************************************************************)
(* C5, as claimed: in networkFirst a non-success answer is handled like a  *)
(* failure: the entry stored under the request key is what the caller gets.*)
(***************************************************************************)
C5_Original ==
  \A s \in Tasks :
    (/\ Done(s)
     /\ task[s].strategy = "networkFirst"
     /\ task[s].netOutcome = "notok"
     /\ Stored(DYNAMIC_CACHE_NAME, Key(task[s])) # Undefined)
      => Returned(s, Stored(DYNAMIC_CACHE_NAME, Key(task[s])))

(***************************************************************************)
(* C5, amended: in networkFirst a non-success answer is returned to the    *)
(* caller as it is, whether or not the dynamic namespace holds an entry    *)
(* under the request key; nothing is looked up and nothing is stored.      *)
(***************************************************************************)
C5_NonSuccessReturned ==
  \A s \in Tasks :
    (/\ Busy(s)
     /\ task[s].strategy = "networkFirst"
     /\ task[s].netOutcome = "notok")
      => /\ Done(s)
         /\ Returned(s, task[s].networkResponse)
         /\ ~ok(task[s].result.resp)
         /\ ~task[s].lookedUp /\ ~task[s].shellLookedUp
         /\ task[s].reads = 0 /\ task[s].writes = 0
         /\ PendingOf(s) = {}

C5_Witness ==
  \E s \in Tasks :
    /\ Done(s)
    /\ task[s].strategy = "networkFirst"
    /\ task[s].netOutcome = "notok"
    /\ Returned(s, task[s].networkResponse)
    /\ Stored(DYNAMIC_CACHE_NAME, Key(task[s])) # Undefined

(***************************************************************************)
(* C6, as claimed: in cacheFirst, after a miss, a page request whose       *)
(* network call throws or answers non-success gets the app shell whenever  *)
(* the static namespace holds it.                                          *)
(***************************************************************************)
C6_Original ==
  \A s \in Tasks :
    (/\ Done(s)
     /\ task[s].strategy = "cacheFirst"
     /\ task[s].lookedUp /\ task[s].cachedResponse = Undefined
     /\ task[s].netOutcome \in {"throw", "notok"}
     /\ Document(s)
     /\ Stored(STATIC_CACHE_NAME, ShellKey) # Undefined)
      => Returned(s, Stored(STATIC_CACHE_NAME, ShellKey))

(***************************************************************************)
(* C6, amended: in cacheFirst, after a miss, a page request whose network  *)
(* call throws gets the app shell whenever the static namespace holds it;  *)
(* a non-success answer is returned to the caller as it is, and the shell  *)
(* is not looked up.                                                       *)
(***************************************************************************)
C6_ShellOnThrow ==
  \A s \in Tasks :
    (/\ Done(s)
     /\ task[s].strategy = "cacheFirst"
     /\ task[s].lookedUp /\ task[s].cachedResponse = Undefined)
      => /\ (/\ task[s].netOutcome = "throw"
             /\ Document(s)
             /\ Stored(STATIC_CACHE_NAME, ShellKey) # Undefined)
              => Returned(s, Stored(STATIC_CACHE_NAME, ShellKey))
         /\ task[s].netOutcome = "notok"
              => /\ Returned(s, task[s].networkResponse)
                 /\ ~task[s].shellLookedUp

C6_Witness ==
  \E s \in Tasks :
    /\ Done(s)
    /\ task[s].strategy = "cacheFirst"
    /\ task[s].cachedResponse = Undefined
    /\ task[s].netOutcome = "throw"
    /\ Document(s)
    /\ Key(task[s]) # ShellKey
    /\ Stored(STATIC_CACHE_NAME, ShellKey) # Undefined
    /\ Returned(s, Stored(STATIC_CACHE_NAME, ShellKey))

(***************************************************************************)
(* C7: in networkFirst, when the network call throws and the dynamic       *)
(* namespace holds nothing under the request key, a page request gets the  *)
(* app shell if the static namespace holds it; in every other case the     *)
(* network failure is what the caller gets.                                *)
(***************************************************************************)
C7_ShellOrFailure ==
  \A s \in Tasks :
    (/\ Done(s)
     /\ task[s].strategy = "networkFirst"
     /\ task[s].netOutcome = "throw"
     /\ Stored(DYNAMIC_CACHE_NAME, Key(task[s])) = Undefined)
      => IF Document(s) /\ Stored(STATIC_CACHE_NAME, ShellKey) # Undefined
         THEN Returned(s, Stored(STATIC_CACHE_NAME, ShellKey))
         ELSE Failed(s, "network")

C7_Witness ==
  \E s \in Tasks :
    /\ Done(s)
    /\ task[s].strategy = "networkFirst"
    /\ task[s].netOutcome = "throw"
    /\ Stored(DYNAMIC_CACHE_NAME, Key(task[s])) = Undefined
    /\ Document(s)
    /\ Returned(s, Stored(STATIC_CACHE_NAME, ShellKey))


(***************************************************************************)
(* C8: in cacheFirst, when the lookup misses, the network call throws and  *)
(* there is no fallback (no page request, or no app shell in the static    *)
(* namespace), the caller gets the failure: cacheFirst never completes     *)
(* without a response.                                                     *)
(***************************************************************************)
C8_NoFallbackFails ==
  \A s \in Tasks :
    (Done(s) /\ task[s].strategy = "cacheFirst")
      => /\ task[s].result.kind \in {"response", "error"}
         /\ (/\ task[s].lookedUp /\ task[s].cachedResponse = Undefined
             /\ task[s].netOutcome = "throw"
             /\ (~Document(s) \/ Stored(STATIC_CACHE_NAME, ShellKey) = Undefined))
              => Failed(s, "network")

(***************************************************************************)
(* C9: once the network has answered a request, no failure of the storage  *)
(* step after it (the namespace opened, the entry put) fails the request   *)
(* or replaces the response: the caller gets the network response.         *)
(***************************************************************************)
C9_WriteBestEffort ==
  \A s \in Tasks :
    (Busy(s) /\ task[s].netOutcome \in {"ok", "notok"})
      => /\ task[s].error = "none"
         /\ Done(s) => Returned(s, task[s].networkResponse)

(***************************************************************************)
(* C10: the install phase succeeds only if every listed asset was fetched  *)
(* and stored; when one fails, the promise given to waitUntil rejects, the *)
(* population is not tried again and the worker is not promoted.           *)
(***************************************************************************)
C10_InstallAllOrFail ==
  /\ install.attempts <= 1
  /\ install.pc = "settled"
       => install.waitUntil = (IF install.stored THEN "fulfilled" ELSE "rejected")
  /\ install.worker \in {"installed", "activating", "activated"}
       => /\ install.stored
          /\ \A i \in DOMAIN STATIC_ASSETS :
               Stored(STATIC_CACHE_NAME, AssetKey(i)) # Undefined

(***************************************************************************)
(* C11: the install handler calls skipWaiting exactly when addAll has      *)
(* stored every listed asset in the static namespace, and in the step that *)
(* follows the population: never while the assets are not stored, never    *)
(* after a failed population.                                              *)
(***************************************************************************)
AssetsStored ==
  \A i \in DOMAIN STATIC_ASSETS : Stored(STATIC_CACHE_NAME, AssetKey(i)) # Undefined

C11_State ==
  /\ install.skipWaiting => install.stored /\ ~install.failed /\ AssetsStored
  /\ install.pc \in {"idle", "open", "addAll"} => ~install.skipWaiting
  /\ (install.stored /\ install.pc \in {"skipWaiting", "settled"})
       => install.skipWaiting
  /\ install.failed => ~install.skipWaiting /\ ~install.stored

C11_Step ==
  (~install.skipWaiting /\ install'.skipWaiting)
    => /\ install.pc = "addAll"
       /\ install'.run = install.run
       /\ install'.stored
       /\ AssetsStored'

C11_SkipWaitingAfterStored == [](C11_State) /\ [][C11_Step]_vars

\* both outcomes of the population: the later version has stored its assets
\* and asked for promotion where the one before it had failed
C11_Witness ==
  /\ install.run = 2
  /\ ~install.prior.stored
  /\ install.pc = "settled"
  /\ install.stored
  /\ install.skipWaiting

(***************************************************************************)
(* C12: when the activate handler has settled, the namespaces of           *)
(* CacheStorage are those that existed when it took the names and carry    *)
(* the static, the dynamic or the umbrella identifier of this version;     *)
(* every other one is deleted, and each survivor holds what it held.       *)
(***************************************************************************)
Configured == {STATIC_CACHE_NAME, DYNAMIC_CACHE_NAME, CACHE_NAME}

C12_PruneExactlyStale ==
  activate.pc \in {"claim", "settled"}
    => /\ DOMAIN caches = DOMAIN activate.before \cap Configured
       /\ \A name \in DOMAIN caches : caches[name] = activate.before[name]
       /\ \A name \in DOMAIN activate.before \ Configured : name \notin DOMAIN caches

\* every namespace of this version and of the one before existed, the
\* static one with the assets of the install; the three of this version are
\* left
C12_Witness ==
  /\ activate.pc = "settled"
  /\ DOMAIN activate.before = Names
  /\ DOMAIN caches = Configured
  /\ Cardinality(caches[STATIC_CACHE_NAME]) = Len(STATIC_ASSETS)
  /\ caches[CACHE_NAME] # {}

(***************************************************************************)
(* C13: in the activate handler clients.claim() is called only when every  *)
(* deletion of an old namespace has settled, and the activate phase ends   *)
(* only after the claim: no page is controlled by the worker while a       *)
(* deletion is under way, and the worker is not activated, nor the promise *)
(* given to waitUntil fulfilled, without the claim.                        *)
(***************************************************************************)
C13_State ==
  /\ activate.claimed
       => /\ activate.deleting = {}
          /\ \A name \in activate.cacheNames : IsOld(name) => name \notin DOMAIN caches
  /\ \A c \in Clients :
       clients[c].controlled => activate.claimed /\ activate.deleting = {}
  /\ activate.waitUntil = "fulfilled" => activate.claimed
  /\ install.worker = "activated"
       => activate.claimed /\ activate.waitUntil = "fulfilled"

C13_Step ==
  /\ (~activate.claimed /\ activate'.claimed)
       => /\ activate.pc = "deleting"
          /\ activate.deleting = {}
          /\ caches' = caches
          /\ install'.worker = "activating"
          /\ \A c \in Clients : clients'[c].controlled = clients[c].open
  /\ activate.deleting # {}
       => \A c \in Clients : ~clients'[c].controlled

C13_ClaimAfterPruning == [](C13_State) /\ [][C13_Step]_vars

\* a page opened before the activation is claimed after the two namespaces
\* of the version before are gone
C13_Witness ==
  /\ install.worker = "activating"
  /\ activate.pc = "claim"
  /\ StaleNames \subseteq activate.cacheNames
  /\ StaleNames \cap DOMAIN caches = {}
  /\ \E c \in Clients : clients[c].open /\ clients[c].controlled

(***************************************************************************)
(* C14: when the install of a later version with the same asset list       *)
(* stores its assets after the install before it had stored them, the      *)
(* static namespace holds exactly one entry under the key of every listed  *)
(* asset, and its keys are those it had after the first install.           *)
(***************************************************************************)
C14_InstallIdempotent ==
  (install.run >= 2 /\ install.prior.stored /\ install.stored)
    => /\ \A i \in DOMAIN STATIC_ASSETS :
            Cardinality({e \in caches[STATIC_CACHE_NAME] : e.key = AssetKey(i)}) = 1
       /\ Keys(caches[STATIC_CACHE_NAME]) = install.prior.keys
       /\ Cardinality(caches[STATIC_CACHE_NAME]) = Cardinality(install.prior.keys)

\* the second population has replaced the payloads of the first, next to
\* an entry that is no listed asset
C14_Witness ==
  /\ install.run = 2
  /\ install.prior.stored
  /\ install.stored
  /\ install.pc = "settled"
  /\ Stored(STATIC_CACHE_NAME, ShellKey).body = "v2"
  /\ Stored(STATIC_CACHE_NAME, Origin \o "/assets/app.js").body = "v1"

(***************************************************************************)
(* C15: a sync event with the tag of the application is relayed: when      *)
(* clients.matchAll() settles, every page open at that moment is posted    *)
(* the message {BACKGROUND_SYNC, SYNC_OFFLINE_DATA} once, and the promise  *)
(* given to waitUntil is fulfilled in the same step, with no answer of a   *)
(* page awaited; no page open means no message and the same completion.    *)
(* Neither the event nor the relay changes a cache namespace, issues a     *)
(* cache write or makes a network call, and a page gets a message by the   *)
(* relay only.                                                             *)
(***************************************************************************)
OpenClients == {c \in Clients : clients[c].open}

C15_State ==
  sync.pc = "matchAll"
    => /\ sync.tag = "background-sync-temptracker"
       /\ sync.waitUntil = "pending"
       /\ install.worker = "activated"

C15_Step ==
  /\ sync' # sync
       => /\ caches' = caches
          /\ pending' = pending
          /\ task' = task
          /\ install' = install
          /\ activate' = activate
  /\ (sync.pc = "matchAll" /\ sync'.pc = "idle")
       => /\ sync'.waitUntil = "fulfilled"
          /\ sync'.clients = OpenClients
          /\ \A c \in Clients :
               clients'[c] = IF clients[c].open
                             THEN [clients[c] EXCEPT !.inbox = Append(@, SyncMessage)]
                             ELSE clients[c]
  /\ (sync'.n = sync.n + 1 /\ sync'.tag = "background-sync-temptracker")
       => sync'.pc = "matchAll" /\ clients' = clients
  /\ \A c \in Clients :
       (clients[c].open /\ clients'[c].open /\ clients'[c].inbox # clients[c].inbox)
         => sync.pc = "matchAll"

C15_SyncRelay == [](C15_State) /\ [][C15_Step]_vars

\* two relays: the first found one page, the second found both
C15_Witness ==
  /\ sync.n = 2
  /\ sync.pc = "idle"
  /\ sync.waitUntil = "fulfilled"
  /\ sync.clients = Clients
  /\ \E c \in Clients : clients[c].inbox = << SyncMessage, SyncMessage >>
  /\ \E c \in Clients : clients[c].inbox = << SyncMessage >>

\* a relay that found no page open
C15_WitnessNoClient ==
  /\ sync.n = 1
  /\ sync.tag = "background-sync-temptracker"
  /\ sync.waitUntil = "fulfilled"
  /\ sync.clients = {}
  /\ OpenClients = {}

(***************************************************************************)
(* C16: the message listener calls skipWaiting in the very step that       *)
(* handles a message of type SKIP_WAITING; a message of another type, or   *)
(* without data, calls nothing, and no message changes the caches, the     *)
(* requests in flight, the install or activate state, the pages or the     *)
(* sync handler.  skipWaiting is called by this listener for such a        *)
(* message only.                                                           *)
(***************************************************************************)
C16_State == msg.skipWaiting <= msg.n

C16_Step ==
  /\ msg'.n = msg.n + 1
       => /\ msg'.skipWaiting = IF msg'.data = Data("SKIP_WAITING")
                                THEN msg.skipWaiting + 1
                                ELSE msg.skipWaiting
          /\ caches' = caches
          /\ pending' = pending
          /\ task' = task
          /\ nFetch' = nFetch
          /\ install' = install
          /\ activate' = activate
          /\ clients' = clients
          /\ sync' = sync
  /\ msg' # msg => msg'.n = msg.n + 1
  /\ msg'.skipWaiting # msg.skipWaiting => msg'.data = Data("SKIP_WAITING")

C16_SkipWaitingOnMessage == [](C16_State) /\ [][C16_Step]_vars

\* the installed worker has handled a SKIP_WAITING message and then one
\* without data
C16_Witness ==
  /\ install.worker = "installed"
  /\ msg.n = 2
  /\ msg.skipWaiting = 1
  /\ msg.data = NoData

(***************************************************************************)
(* C17: request handling stores snapshots of successful network answers    *)
(* only.  Every write it issues carries the success answer its own request *)
(* got for its key; outside the install and activate handlers an entry     *)
(* comes into a namespace, or changes, only by such a write being applied; *)
(* a non-success answer or a thrown network call issues no write; and no   *)
(* entry and no namespace goes away, except a whole namespace deleted by   *)
(* the activate handler.                                                   *)
(***************************************************************************)
Held(cs, name) == IF name \in DOMAIN cs THEN cs[name] ELSE {}

C17_State ==
  \A w \in pending :
    /\ w.ns \in {STATIC_CACHE_NAME, DYNAMIC_CACHE_NAME}
    /\ ok(w.resp)
    /\ w.resp \in NetworkResponses(w.key)

C17_Step ==
  /\ pending' # pending
       => \A w \in pending' \ pending :
            \E s \in Tasks :
              /\ task[s].pc \in {"cf_fetch", "nf_open"}
              /\ w = Write(task[s], task'[s].networkResponse)
              /\ task'[s].netOutcome = "ok"
              /\ ok(w.resp)
  /\ \A s \in Tasks :
       (task'[s].netOutcome \in {"notok", "throw"} /\ task[s].netOutcome = "none")
         => pending' = pending /\ caches' = caches
  /\ (caches' # caches /\ install' = install /\ activate' = activate)
       => /\ DOMAIN caches \subseteq DOMAIN caches'
          /\ \A name \in DOMAIN caches' :
               /\ Keys(Held(caches, name)) \subseteq Keys(caches'[name])
               /\ \A e \in caches'[name] \ Held(caches, name) :
                    \E w \in pending \ pending' :
                      w.ns = name /\ w.key = e.key /\ w.resp = e.resp
  /\ caches' # caches
       => \A name \in DOMAIN caches :
            Keys(caches[name]) # Keys(Held(caches', name))
              => \/ Keys(caches[name]) \subseteq Keys(Held(caches', name))
                 \/ name \in activate.deleting /\ name \notin DOMAIN caches'

C17_OnlySuccessStored == [](C17_State) /\ [][C17_Step]_vars

\* a non-success answer has left the entry of its key as an earlier success
\* answer had stored it
C17_Witness ==
  \E s \in Tasks :
    /\ Done(s)
    /\ Dynamic(s)
    /\ task[s].netOutcome = "notok"
    /\ Stored(DYNAMIC_CACHE_NAME, Key(task[s])) \in NetworkResponses(Key(task[s]))
    /\ ok(Stored(DYNAMIC_CACHE_NAME, Key(task[s])))

(***************************************************************************)
(* C18: requests handled concurrently, for one key or several.  A caller   *)
(* that gets a response gets the answer of its own network call or an      *)
(* entry it read from a cache; a request fails only when its own network   *)
(* call threw or its own storage step failed.  A namespace never holds two *)
(* entries under one key; outside the install and activate handlers the    *)
(* entry of a key changes only in the step that applies a pending write    *)
(* for that key, and is that write's response afterwards, so that when     *)
(* all writes have settled it is the response of the write applied last;   *)
(* no namespace is lost.                                                   *)
(***************************************************************************)
C18_State ==
  /\ \A name \in DOMAIN caches :
       \A e1, e2 \in caches[name] : e1.key = e2.key => e1 = e2
  /\ \A s \in Tasks :
       Done(s)
         => IF task[s].result.kind = "response"
            THEN \/ /\ task[s].netOutcome \in {"ok", "notok"}
                    /\ task[s].result.resp = task[s].networkResponse
                 \/ /\ task[s].lookedUp
                    /\ task[s].result.resp = task[s].cachedResponse
                 \/ /\ task[s].shellLookedUp
                    /\ task[s].result.resp = task[s].shell
            ELSE task[s].netOutcome = "throw" \/ task[s].error = "storage"

C18_Step ==
  (caches' # caches /\ install' = install /\ activate' = activate)
    => /\ DOMAIN caches \subseteq DOMAIN caches'
       /\ \A name \in DOMAIN caches' :
            Held(caches, name) # caches'[name]
              => \E w \in pending \ pending' :
                   /\ w.ns = name
                   /\ pending' = pending \ {w}
                   /\ caches'[name] =
                        {e \in caches[name] : e.key # w.key}
                          \cup {[key |-> w.key, resp |-> w.resp]}
                   /\ Cardinality({e \in caches'[name] : e.key = w.key}) = 1
                   /\ task' = task

C18_ConcurrentWrites == [](C18_State) /\ [][C18_Step]_vars

\* two requests for one key got different answers; the write of the second
\* has been applied and the write of the first is still to settle
C18_Witness ==
  \E w \in pending :
    /\ w.by = 1
    /\ nFetch = 2
    /\ Stored(w.ns, w.key) \notin {Undefined, w.resp}
    /\ w.ns = DYNAMIC_CACHE_NAME

(***************************************************************************)
(* C19: the strategy and the namespace of a request are fixed when the     *)
(* listener has classified it and do not change while it is handled.  A    *)
(* request with a static path runs cacheFirst only, and every cache        *)
(* operation and write of it is on the static namespace.  Any other        *)
(* request runs networkFirst only: it writes the dynamic namespace alone,  *)
(* and the one operation it makes on the static namespace is the lookup of *)
(* the app shell, for a page request, after its own attempt has failed and *)
(* the dynamic namespace has given nothing for its key.                    *)
(***************************************************************************)
ShellLookup == [ns |-> STATIC_CACHE_NAME, op |-> "match", key |-> ShellKey]

C19_State ==
  \A s \in Tasks :
    (Busy(s) /\ task[s].claimed)
      => IF Static(s)
         THEN /\ task[s].strategy = "cacheFirst"
              /\ task[s].pc \in {"cf_open", "cf_fetch", "cf_fb_open", "done"}
              /\ \A x \in task[s].touched : x.ns = STATIC_CACHE_NAME
              /\ \A w \in PendingOf(s) : w.ns = STATIC_CACHE_NAME
         ELSE /\ task[s].strategy = "networkFirst"
              /\ task[s].pc \in {"nf_fetch", "nf_open", "nf_c_open", "nf_s_open", "done"}
              /\ \A w \in PendingOf(s) : w.ns = DYNAMIC_CACHE_NAME
              /\ \A x \in task[s].touched :
                   \/ x.ns = DYNAMIC_CACHE_NAME
                   \/ /\ x = ShellLookup
                      /\ Document(s)
                      /\ task[s].error # "none"
                      /\ task[s].lookedUp
                      /\ task[s].cachedResponse = Undefined

C19_Step ==
  \A s \in Tasks :
    (task[s].strategy # "none" /\ task'[s].id = task[s].id)
      => /\ task'[s].strategy = task[s].strategy
         /\ task'[s].cacheName = task[s].cacheName
         /\ task'[s] # task[s]
              => \A name \in DOMAIN caches' \ DOMAIN caches :
                   name = STATIC_CACHE_NAME \/ name = task[s].cacheName

C19_ClassifiedOnce == [](C19_State) /\ [][C19_Step]_vars

\* a page request handled by networkFirst has looked up its key in the
\* dynamic namespace and then the app shell in the static one
C19_Witness ==
  \E s \in Tasks :
    /\ Done(s)
    /\ Dynamic(s)
    /\ ShellLookup \in task[s].touched
    /\ [ns |-> DYNAMIC_CACHE_NAME, op |-> "match", key |-> Key(task[s])] \in task[s].touched
    /\ Returned(s, task[s].shell)

(***************************************************************************)
(* C20: a request that ends in a failure handed to the platform has issued *)
(* no cache write, and every step of a request that issues no write leaves *)
(* what each namespace holds under each key, the writes still to settle,   *)
(* the install and activate state, the pages, the sync and message state   *)
(* and every other request in flight as they were (a namespace it opens    *)
(* for a lookup may come into being, empty).  What the other requests and  *)
(* the later ones read is therefore what they would have read without it.  *)
(***************************************************************************)
C20_State ==
  \A s \in Tasks :
    (Done(s) /\ task[s].result.kind = "error")
      => /\ task[s].writes = 0
         /\ PendingOf(s) = {}
         /\ \A x \in task[s].touched : x.op = "match"
         /\ task[s].error \in {"network", "storage"}
         /\ Failed(s, task[s].error)

C20_Step ==
  \A s \in Tasks :
    (task'[s] # task[s] /\ task'[s].writes = task[s].writes)
      => /\ pending' = pending
         /\ DOMAIN caches \subseteq DOMAIN caches'
         /\ \A name \in DOMAIN caches' : caches'[name] = Held(caches, name)
         /\ install' = install
         /\ activate' = activate
         /\ clients' = clients
         /\ sync' = sync
         /\ msg' = msg
         /\ \A u \in Tasks \ {s} : task'[u] = task[u]

C20_FailureScoped == [](C20_State) /\ [][C20_Step]_vars

\* a request has failed after a lookup in the dynamic namespace while
\* another one for the same key, whose network call has answered, is in
\* flight
C20_Witness ==
  \E s, u \in Tasks :
    /\ s # u
    /\ Failed(s, "network")
    /\ task[s].lookedUp
    /\ task[u].pc = "nf_open"
    /\ Key(task[u]) = Key(task[s])
    /\ AssetsStored

====
